---------------------------- MODULE Spec2Model ----------------------------
(***************************************************************************)
(* Extraction and linking of near-Earth objects and close approaches.      *)
(*                                                                         *)
(*   src/models.py   NearEarthObject, CloseApproach                        *)
(*   src/extract.py  load_neos, load_approaches                            *)
(*                                                                         *)
(* A Python str is a sequence of one-character strings, so that float(),   *)
(* the calendar parser and the formatting of fullname are computed         *)
(* character by character.  Field names of the columnar header are TLA+    *)
(* strings: the code only compares them.                                   *)
(***************************************************************************)
EXTENDS Integers, Sequences, FiniteSets, TLC

(***************************************************************************)
(* Bounds of the model.                                                    *)
(***************************************************************************)
\* Largest number of records in the tabular source.
MaxNeoRows == 2
\* Largest number of data rows in the columnar source.
MaxCadRows == 2

(***************************************************************************)
(* Characters and character sequences.                                     *)
(***************************************************************************)
DigitChars == {"0", "1", "2", "3", "4", "5", "6", "7", "8", "9"}

DigitVal(c) ==
    CASE c = "0" -> 0 [] c = "1" -> 1 [] c = "2" -> 2 [] c = "3" -> 3
      [] c = "4" -> 4 [] c = "5" -> 5 [] c = "6" -> 6 [] c = "7" -> 7
      [] c = "8" -> 8 [] c = "9" -> 9 [] OTHER -> 0

DigitChar(d) ==
    CASE d = 0 -> "0" [] d = 1 -> "1" [] d = 2 -> "2" [] d = 3 -> "3"
      [] d = 4 -> "4" [] d = 5 -> "5" [] d = 6 -> "6" [] d = 7 -> "7"
      [] d = 8 -> "8" [] OTHER -> "9"

\* str.lower() on the letters that occur in the inputs.
LowerChar(c) ==
    CASE c = "N" -> "n" [] c = "A" -> "a" [] c = "I" -> "i" [] c = "F" -> "f"
      [] c = "T" -> "t" [] c = "Y" -> "y" [] OTHER -> c

Lower(s) == [i \in 1..Len(s) |-> LowerChar(s[i])]

RECURSIVE LStrip(_)
LStrip(s) == IF s # <<>> /\ Head(s) = " " THEN LStrip(Tail(s)) ELSE s

RECURSIVE RStrip(_)
RStrip(s) ==
    IF s # <<>> /\ s[Len(s)] = " " THEN RStrip(SubSeq(s, 1, Len(s) - 1)) ELSE s

Strip(s) == RStrip(LStrip(s))

\* The integer written by a sequence of decimal digits.
RECURSIVE DigitsVal(_)
DigitsVal(s) ==
    IF s = <<>> THEN 0
    ELSE 10 * DigitsVal(SubSeq(s, 1, Len(s) - 1)) + DigitVal(s[Len(s)])

(***************************************************************************)
(* Python values.                                                          *)
(*                                                                         *)
(* A float is [kind, neg, mant, scale]: kind "num" is the number           *)
(* (-1)^neg * mant / 10^scale, kind "nan" and "inf" are the IEEE specials, *)
(* and kind "ValueError" stands for float() raising instead of returning.  *)
(***************************************************************************)
NaN == [kind |-> "nan", neg |-> FALSE, mant |-> 0, scale |-> 0]
Inf(n) == [kind |-> "inf", neg |-> n, mant |-> 0, scale |-> 0]
FloatValueError == [kind |-> "ValueError", neg |-> FALSE, mant |-> 0, scale |-> 0]

\* One value per number: trailing zeros of the fraction are dropped.
RECURSIVE Num(_, _, _)
Num(n, m, sc) ==
    IF sc > 0 /\ m % 10 = 0 THEN Num(n, m \div 10, sc - 1)
    ELSE [kind |-> "num", neg |-> n, mant |-> m, scale |-> sc]

isnan(x) == x.kind = "nan"

\* The body of a decimal literal: digits with at most one point and at least
\* one digit ("1", "16.84", "1.", ".5").
IsDecimal(s) ==
    /\ \A i \in 1..Len(s) : s[i] \in DigitChars \cup {"."}
    /\ Cardinality({i \in 1..Len(s) : s[i] = "."}) <= 1
    /\ \E i \in 1..Len(s) : s[i] \in DigitChars

PointAt(s) == IF \E i \in 1..Len(s) : s[i] = "."
              THEN CHOOSE i \in 1..Len(s) : s[i] = "."
              ELSE Len(s) + 1

\* float(s) for a str s: surrounding whitespace is ignored, a sign may lead,
\* "nan", "inf" and "infinity" are accepted in any case, everything else must
\* be a decimal literal.  The inputs hold no exponent and no underscore.
PyFloat(s) ==
    LET t      == Strip(s)
        signed == t # <<>> /\ Head(t) \in {"+", "-"}
        neg    == t # <<>> /\ Head(t) = "-"
        body   == IF signed THEN Tail(t) ELSE t
        low    == Lower(body)
        p      == PointAt(body)
        int    == SubSeq(body, 1, p - 1)
        frac   == SubSeq(body, p + 1, Len(body))
    IN  IF low = <<"n", "a", "n">> THEN NaN
        ELSE IF low \in {<<"i", "n", "f">>,
                         <<"i", "n", "f", "i", "n", "i", "t", "y">>}
             THEN Inf(neg)
        ELSE IF IsDecimal(body)
             THEN Num(neg, DigitsVal(int \o frac), Len(frac))
        ELSE FloatValueError


(***************************************************************************)
(* The time helpers (helpers.py): "YYYY-Mon-DD hh:mm" -> datetime, and     *)
(* datetime -> "YYYY-MM-DD hh:mm".                                         *)
(***************************************************************************)
MonthNames ==
    << <<"J", "a", "n">>, <<"F", "e", "b">>, <<"M", "a", "r">>,
       <<"A", "p", "r">>, <<"M", "a", "y">>, <<"J", "u", "n">>,
       <<"J", "u", "l">>, <<"A", "u", "g">>, <<"S", "e", "p">>,
       <<"O", "c", "t">>, <<"N", "o", "v">>, <<"D", "e", "c">> >>

DatetimeValueError ==
    [exc |-> "ValueError", year |-> 0, month |-> 0, day |-> 0, hour |-> 0, minute |-> 0]

AllDigits(s) == \A i \in 1..Len(s) : s[i] \in DigitChars

cd_to_datetime(s) ==
    IF Len(s) # 17 THEN DatetimeValueError
    ELSE
    LET yyyy == SubSeq(s, 1, 4)
        mon  == SubSeq(s, 6, 8)
        dd   == SubSeq(s, 10, 11)
        hh   == SubSeq(s, 13, 14)
        mm   == SubSeq(s, 16, 17)
    IN  IF /\ AllDigits(yyyy) /\ AllDigits(dd) /\ AllDigits(hh) /\ AllDigits(mm)
           /\ s[5] = "-" /\ s[9] = "-" /\ s[12] = " " /\ s[15] = ":"
           /\ \E m \in 1..12 : MonthNames[m] = mon
           /\ DigitsVal(yyyy) >= 1
           /\ DigitsVal(dd) \in 1..31
           /\ DigitsVal(hh) \in 0..23
           /\ DigitsVal(mm) \in 0..59
        THEN [exc    |-> "",
              year   |-> DigitsVal(yyyy),
              month  |-> CHOOSE m \in 1..12 : MonthNames[m] = mon,
              day    |-> DigitsVal(dd),
              hour   |-> DigitsVal(hh),
              minute |-> DigitsVal(mm)]
        ELSE DatetimeValueError

Pad2(n) == <<DigitChar((n \div 10) % 10), DigitChar(n % 10)>>

Pad4(n) == Pad2(n \div 100) \o Pad2(n % 100)

datetime_to_str(dt) ==
    Pad4(dt.year) \o <<"-">> \o Pad2(dt.month) \o <<"-">> \o Pad2(dt.day)
        \o <<" ">> \o Pad2(dt.hour) \o <<":">> \o Pad2(dt.minute)

(***************************************************************************)
(* NearEarthObject (src/models.py).                                        *)
(*                                                                         *)
(* An optional string is [none, str]; None is the absent name.  An object  *)
(* reference is the position of the object in the list that holds it, and  *)
(* NoneRef is the reference None.                                          *)
(***************************************************************************)
None == [none |-> TRUE, str |-> <<>>]
Some(s) == [none |-> FALSE, str |-> s]

NoneRef == 0

\* Python truthiness of an optional string: None and '' are falsy.
Truthy(o) == ~o.none /\ o.str # <<>>

\* self.name = name if name != '' else None
\* Variant: the empty name is kept as '' instead of becoming None.
NeoName_keep(name) == Some(name)

NeoName(name) == IF name # <<>> THEN Some(name) ELSE None

\* self.diameter = float(diameter) if diameter != '' else float('nan')
NeoDiameter(diameter) == IF diameter # <<>> THEN PyFloat(diameter) ELSE NaN

\* self.hazardous = hazardous == 'Y'
\* Variant: the flag is compared without regard to case.
NeoHazardous_anycase(hazardous) == Lower(hazardous) = <<"y">>

NeoHazardous(hazardous) == hazardous = <<"Y">>

NoNeo ==
    [designation |-> <<>>, name |-> None, diameter |-> NaN,
     hazardous |-> FALSE, approaches |-> <<>>]

\* The constructor: [exc, obj], exc the exception it raised ("" for none).
\* Variant: an unparseable diameter becomes NaN instead of raising.
NearEarthObject_lenient(designation, name, diameter, hazardous) ==
    [exc |-> "",
     obj |-> [designation |-> designation,
              name        |-> NeoName(name),
              diameter    |-> IF NeoDiameter(diameter).kind = "ValueError"
                              THEN NaN ELSE NeoDiameter(diameter),
              hazardous   |-> NeoHazardous(hazardous),
              approaches  |-> <<>>]]

\* Variant: approaches starts out holding an approach instead of empty.
NearEarthObject_stale(designation, name, diameter, hazardous) ==
    IF NeoDiameter(diameter).kind = "ValueError"
    THEN [exc |-> "ValueError", obj |-> NoNeo]
    ELSE [exc |-> "",
          obj |-> [designation |-> designation,
                   name        |-> NeoName(name),
                   diameter    |-> NeoDiameter(diameter),
                   hazardous   |-> NeoHazardous(hazardous),
                   approaches  |-> <<1>>]]

NearEarthObject(designation, name, diameter, hazardous) ==
    IF NeoDiameter(diameter).kind = "ValueError"
    THEN [exc |-> "ValueError", obj |-> NoNeo]
    ELSE [exc |-> "",
          obj |-> [designation |-> designation,
                   name        |-> NeoName(name),
                   diameter    |-> NeoDiameter(diameter),
                   hazardous   |-> NeoHazardous(hazardous),
                   approaches  |-> <<>>]]

fullname(self) ==
    IF ~Truthy(self.name) THEN self.designation
    ELSE self.designation \o <<" ", "(">> \o self.name.str \o <<")">>

NearEarthObject_serialize(self) ==
    [designation           |-> self.designation,
     name                  |-> self.name,
     diameter_km           |-> self.diameter,
     potentially_hazardous |-> self.hazardous]

(***************************************************************************)
(* CloseApproach (src/models.py).                                          *)
(***************************************************************************)
NoApproach ==
    [designation |-> <<>>, time |-> DatetimeValueError, distance |-> NaN,
     velocity |-> NaN, neo |-> NoneRef]

\* Variant: neo starts out as a reference instead of None.
CloseApproach_preset(designation, time, distance, velocity) ==
    IF \/ cd_to_datetime(time).exc # ""
       \/ PyFloat(distance).kind = "ValueError"
       \/ PyFloat(velocity).kind = "ValueError"
    THEN [exc |-> "ValueError", obj |-> NoApproach]
    ELSE [exc |-> "",
          obj |-> [designation |-> designation,
                   time        |-> cd_to_datetime(time),
                   distance    |-> PyFloat(distance),
                   velocity    |-> PyFloat(velocity),
                   neo         |-> 1]]

CloseApproach(designation, time, distance, velocity) ==
    IF \/ cd_to_datetime(time).exc # ""
       \/ PyFloat(distance).kind = "ValueError"
       \/ PyFloat(velocity).kind = "ValueError"
    THEN [exc |-> "ValueError", obj |-> NoApproach]
    ELSE [exc |-> "",
          obj |-> [designation |-> designation,
                   time        |-> cd_to_datetime(time),
                   distance    |-> PyFloat(distance),
                   velocity    |-> PyFloat(velocity),
                   neo         |-> NoneRef]]

time_str(self) == datetime_to_str(self.time)

NoSerialized ==
    [datetime_utc |-> <<>>, distance_au |-> NaN, velocity_km_s |-> NaN,
     neo |-> NearEarthObject_serialize(NoNeo)]

\* self.neo.serialize() on None raises AttributeError; heap is the list of
\* NearEarthObjects that references point into.
CloseApproach_serialize(self, heap) ==
    IF self.neo = NoneRef
    THEN [exc |-> "AttributeError", val |-> NoSerialized]
    ELSE [exc |-> "",
          val |-> [datetime_utc  |-> time_str(self),
                   distance_au   |-> self.distance,
                   velocity_km_s |-> self.velocity,
                   neo           |-> NearEarthObject_serialize(heap[self.neo])]]

(***************************************************************************)
(* The two sources.                                                        *)
(*                                                                         *)
(* A record of the tabular source is what csv.DictReader yields: a mapping *)
(* from the column names to strings.  The columnar source is the JSON      *)
(* document: "fields", the header, and "data", rows aligned to the header. *)
(***************************************************************************)
\* Sequences over S of length 0..n.
SeqUpTo(S, n) == UNION {[1..k -> S] : k \in 0..n}

Range(f) == {f[i] : i \in DOMAIN f}

ValidNeoRows ==
    { [pdes |-> <<"4", "3", "3">>, name |-> <<"E", "r", "o", "s">>, diameter |-> <<"1", "6", ".", "8", "4">>, pha |-> <<"N">>],
      [pdes |-> <<"4", "3", "3">>, name |-> <<>>, diameter |-> <<>>, pha |-> <<"Y">>],
      [pdes |-> <<"1">>, name |-> <<"C", "e", "r", "e", "s">>, diameter |-> <<"9", "3", "9", ".", "4">>, pha |-> <<"N">>] }

OtherNeoRows ==
    { [pdes |-> <<"7">>, name |-> <<>>, diameter |-> <<"a", "b", "c">>, pha |-> <<"N">>],
      [pdes |-> <<"8">>, name |-> <<"I", "r", "i", "s">>, diameter |-> <<"1", ".", "2", ".", "3">>, pha |-> <<"Y">>],
      [pdes |-> <<"9">>, name |-> <<>>, diameter |-> <<"n", "a", "n">>, pha |-> <<"N">>],
      [pdes |-> <<"1", "0">>, name |-> <<"J", "u", "n", "o">>, diameter |-> <<"-", "1", ".", "5">>, pha |-> <<"N">>],
      [pdes |-> <<"1", "1">>, name |-> <<>>, diameter |-> <<"i", "n", "f">>, pha |-> <<"Y">>],
      [pdes |-> <<"1", "2">>, name |-> <<" ">>, diameter |-> <<" ", "2", ".", "5", "0", " ">>, pha |-> <<"y">>],
      [pdes |-> <<"1", "3">>, name |-> <<"H", "e", "b", "e">>, diameter |-> <<"0">>, pha |-> <<>>],
      [pdes |-> <<"1", "4">>, name |-> <<>>, diameter |-> <<"7", ".">>, pha |-> <<"Y", "e", "s">>] }

NeoRows == ValidNeoRows \cup OtherNeoRows

\* The columns of a close-approach record, by name.
ValidCadRecords ==
    { [des |-> <<"4", "3", "3">>, orbit_id |-> <<"5", "4">>, cd |-> <<"1", "9", "0", "0", "-", "J", "a", "n", "-", "0", "1", " ", "1", "2", ":", "1", "1">>, dist |-> <<"0", ".", "3">>, v_rel |-> <<"5", ".", "5">>],
      [des |-> <<"1">>, orbit_id |-> <<"7">>, cd |-> <<"2", "0", "2", "0", "-", "D", "e", "c", "-", "3", "1", " ", "2", "3", ":", "5", "9">>, dist |-> <<"0", ".", "0", "5">>, v_rel |-> <<"1", "2">>],
      [des |-> <<"9", "9">>, orbit_id |-> <<"1">>, cd |-> <<"2", "0", "2", "0", "-", "J", "a", "n", "-", "0", "1", " ", "1", "2", ":", "0", "0">>, dist |-> <<"1", ".", "5">>, v_rel |-> <<"7", ".", "2", "5">>] }

OtherCadRecords ==
    { [des |-> <<"4", "3", "3">>, orbit_id |-> <<"2">>, cd |-> <<"1", "9", "0", "0", "-", "J", "a", "n", "-", "0", "1", " ", "1", "2", ":", "1", "1">>, dist |-> <<"a", "b", "c">>, v_rel |-> <<"5", ".", "5">>],
      [des |-> <<"1">>, orbit_id |-> <<"3">>, cd |-> <<"2", "0", "2", "0", "-", "D", "e", "c", "-", "3", "1", " ", "2", "3", ":", "5", "9">>, dist |-> <<"0", ".", "0", "5">>, v_rel |-> <<"1", ".", "2", ".", "3">>],
      [des |-> <<"4", "3", "3">>, orbit_id |-> <<"4">>, cd |-> <<"2", "0", "2", "0", "-", "1", "3", "-", "0", "1", " ", "1", "2", ":", "0", "0">>, dist |-> <<"0", ".", "3">>, v_rel |-> <<"5", ".", "5">>],
      [des |-> <<"1">>, orbit_id |-> <<"5">>, cd |-> <<"2", "0", "2", "0", "-", "J", "a", "n", "-", "0", "1", " ", "1", "2", ":", "0", "0">>, dist |-> <<>>, v_rel |-> <<"5", ".", "5">>] }

CadRecords == ValidCadRecords \cup OtherCadRecords

RequiredFields == {"des", "cd", "dist", "v_rel"}

\* Headers that hold every required field name.
ValidHeaders ==
    { <<"des", "cd", "dist", "v_rel">>,
      <<"v_rel", "orbit_id", "dist", "cd", "des">> }

\* Headers that lack one required field name.
OtherHeaders ==
    { <<"des", "cd", "dist", "orbit_id">>,
      <<"orbit_id", "cd", "dist", "v_rel">>,
      <<"des", "orbit_id", "dist", "v_rel">>,
      <<"cd", "des", "v_rel">> }

Headers == ValidHeaders \cup OtherHeaders

\* The data row of a record under a header.
RowOf(rec, fields) == [k \in 1..Len(fields) |-> rec[fields[k]]]

CadDocument(fields, recs) ==
    [fields |-> fields, data |-> [k \in 1..Len(recs) |-> RowOf(recs[k], fields)]]

DefaultCsv == << [pdes |-> <<"4", "3", "3">>, name |-> <<"E", "r", "o", "s">>, diameter |-> <<"1", "6", ".", "8", "4">>, pha |-> <<"N">>] >>

DefaultCad ==
    CadDocument(<<"des", "cd", "dist", "v_rel">>,
                << [des |-> <<"4", "3", "3">>, orbit_id |-> <<"5", "4">>, cd |-> <<"1", "9", "0", "0", "-", "J", "a", "n", "-", "0", "1", " ", "1", "2", ":", "1", "1">>, dist |-> <<"0", ".", "3">>, v_rel |-> <<"5", ".", "5">>] >>)

\* The inputs: any tabular source beside one close approach, any columnar
\* source beside one object, and every pair of well-formed sources.
Inputs ==
    ({[csv |-> c, cad |-> DefaultCad] : c \in SeqUpTo(NeoRows, MaxNeoRows)})
    \cup
    ({[csv |-> DefaultCsv, cad |-> CadDocument(h, r)] :
         h \in Headers, r \in SeqUpTo(CadRecords, MaxCadRows)})
    \cup
    ({[csv |-> c, cad |-> CadDocument(h, r)] :
         c \in SeqUpTo(ValidNeoRows, MaxNeoRows),
         h \in ValidHeaders,
         r \in SeqUpTo(ValidCadRecords, MaxCadRows)})

(***************************************************************************)
(* State.                                                                  *)
(***************************************************************************)
VARIABLES
    neo_csv,      \* the records of the tabular source
    cad_json,     \* the columnar document: [fields, data]
    neo_pc,       \* load_neos: "start", "loop", "returned", "raised"
    neo_i,        \* load_neos: records the reader has yielded and the loop finished
    neos,         \* load_neos: the list neos; its objects are the NEO heap
    cad_pc,       \* load_approaches: "start", "loop", "returned", "raised"
    cad_i,        \* load_approaches: rows the loop has finished
    index,        \* load_approaches: designation_index, time_index, ...
    cas,          \* load_approaches: the list cas; its objects are the approach heap
    db_pc,        \* the linker: "idle", "link", "done"
    db_i,         \* the linker: approaches it has visited
    by_des,       \* the linker: designation -> reference to a NearEarthObject
    out,          \* the value of the last CloseApproach.serialize call
    exc           \* the exception that ended the program: [type, origin]

vars == <<neo_csv, cad_json, neo_pc, neo_i, neos, cad_pc, cad_i, index, cas,
          db_pc, db_i, by_des, out, exc>>

NoExc == [type |-> "", origin |-> ""]

NoIndex == [des |-> 0, cd |-> 0, dist |-> 0, v_rel |-> 0]

NoOut == [exc |-> "", val |-> NoSerialized, of |-> NoneRef]

Init ==
    /\ \E in \in Inputs : neo_csv = in.csv /\ cad_json = in.cad
    /\ neo_pc = "start" /\ neo_i = 0 /\ neos = <<>>
    /\ cad_pc = "start" /\ cad_i = 0 /\ index = NoIndex /\ cas = <<>>
    /\ db_pc = "idle" /\ db_i = 0 /\ by_des = <<>>
    /\ out = NoOut
    /\ exc = NoExc

\* An uncaught exception ends the program: nothing runs after it.
Running == exc = NoExc

(***************************************************************************)
(* load_neos (src/extract.py).                                             *)
(***************************************************************************)
\* neos = []; open the file; reader = csv.DictReader(f)
NeoOpen ==
    /\ Running /\ neo_pc = "start"
    /\ neo_pc' = "loop" /\ neo_i' = 0 /\ neos' = <<>>
    /\ UNCHANGED <<neo_csv, cad_json, cad_pc, cad_i, index, cas, db_pc, db_i,
                   by_des, out, exc>>

\* The constructor call of one iteration.
LoadNeosRow(row) ==
    NearEarthObject(row.pdes, row.name, row.diameter, row.pha)

\* for row in reader: neo = NearEarthObject(...); neos.append(neo)
NeoRow ==
    /\ Running /\ neo_pc = "loop" /\ neo_i < Len(neo_csv)
    /\ LET r == LoadNeosRow(neo_csv[neo_i + 1])
       IN  IF r.exc # ""
           THEN /\ neo_pc' = "raised"
                /\ exc' = [type |-> r.exc, origin |-> "load_neos"]
                /\ UNCHANGED <<neo_i, neos>>
           ELSE /\ neos' = Append(neos, r.obj)
                /\ neo_i' = neo_i + 1
                /\ UNCHANGED <<neo_pc, exc>>
    /\ UNCHANGED <<neo_csv, cad_json, cad_pc, cad_i, index, cas, db_pc, db_i,
                   by_des, out>>

\* return neos
NeoReturn ==
    /\ Running /\ neo_pc = "loop" /\ neo_i = Len(neo_csv)
    /\ neo_pc' = "returned"
    /\ UNCHANGED <<neo_csv, cad_json, neo_i, neos, cad_pc, cad_i, index, cas,
                   db_pc, db_i, by_des, out, exc>>

(***************************************************************************)
(* load_approaches (src/extract.py).                                       *)
(***************************************************************************)
\* list.index(x): the first position of x; 0 stands for the ValueError that
\* list.index raises when x is not in the list.
\* Variant: an absent name yields the last position (index -1) instead of raising.
ListIndex_last(labels, x) ==
    IF \E k \in 1..Len(labels) : labels[k] = x
    THEN CHOOSE k \in 1..Len(labels) :
             labels[k] = x /\ \A m \in 1..(k - 1) : labels[m] # x
    ELSE Len(labels)

ListIndex(labels, x) ==
    IF \E k \in 1..Len(labels) : labels[k] = x
    THEN CHOOSE k \in 1..Len(labels) :
             labels[k] = x /\ \A m \in 1..(k - 1) : labels[m] # x
    ELSE 0

\* cas = []; json.load; the four labels.index calls
CadOpen ==
    /\ Running /\ cad_pc = "start"
    /\ LET labels == cad_json.fields
           ix == [des   |-> ListIndex(labels, "des"),
                  cd    |-> ListIndex(labels, "cd"),
                  dist  |-> ListIndex(labels, "dist"),
                  v_rel |-> ListIndex(labels, "v_rel")]
       IN  IF \E f \in DOMAIN ix : ix[f] = 0
           THEN /\ cad_pc' = "raised"
                /\ exc' = [type |-> "ValueError", origin |-> "load_approaches"]
                /\ UNCHANGED index
           ELSE /\ cad_pc' = "loop"
                /\ index' = ix
                /\ UNCHANGED exc
    /\ cad_i' = 0 /\ cas' = <<>>
    /\ UNCHANGED <<neo_csv, cad_json, neo_pc, neo_i, neos, db_pc, db_i, by_des,
                   out>>

\* The constructor call of one iteration.
\* Variant: distance and velocity are read from each other's column.
LoadApproachesRow_swapped(ca_data, ix) ==
    CloseApproach(ca_data[ix.des], ca_data[ix.cd],
                  ca_data[ix.v_rel], ca_data[ix.dist])

LoadApproachesRow(ca_data, ix) ==
    CloseApproach(ca_data[ix.des], ca_data[ix.cd],
                  ca_data[ix.dist], ca_data[ix.v_rel])

\* for ca_data in file_data['data']: cs = CloseApproach(...); cas.append(cs)
CadRow ==
    /\ Running /\ cad_pc = "loop" /\ cad_i < Len(cad_json.data)
    /\ LET r == LoadApproachesRow(cad_json.data[cad_i + 1], index)
       IN  IF r.exc # ""
           THEN /\ cad_pc' = "raised"
                /\ exc' = [type |-> r.exc, origin |-> "load_approaches"]
                /\ UNCHANGED <<cad_i, cas>>
           ELSE /\ cas' = Append(cas, r.obj)
                /\ cad_i' = cad_i + 1
                /\ UNCHANGED <<cad_pc, exc>>
    /\ UNCHANGED <<neo_csv, cad_json, neo_pc, neo_i, neos, index, db_pc, db_i,
                   by_des, out>>

\* return cas
CadReturn ==
    /\ Running /\ cad_pc = "loop" /\ cad_i = Len(cad_json.data)
    /\ cad_pc' = "returned"
    /\ UNCHANGED <<neo_csv, cad_json, neo_pc, neo_i, neos, cad_i, index, cas,
                   db_pc, db_i, by_des, out, exc>>

(***************************************************************************)
(* The linker (the NEODatabase constructor).                               *)
(***************************************************************************)
\* designation -> NearEarthObject; a later object shadows an earlier one of
\* the same designation.
Lookup(list) ==
    [d \in {list[i].designation : i \in 1..Len(list)} |->
        CHOOSE i \in 1..Len(list) :
            /\ list[i].designation = d
            /\ \A k \in (i + 1)..Len(list) : list[k].designation # d]

\* Runs once, after both loaders have returned.
DbBuild ==
    /\ Running /\ db_pc = "idle"
    /\ neo_pc = "returned" /\ cad_pc = "returned"
    /\ by_des' = Lookup(neos)
    /\ db_pc' = "link" /\ db_i' = 0
    /\ UNCHANGED <<neo_csv, cad_json, neo_pc, neo_i, neos, cad_pc, cad_i, index,
                   cas, out, exc>>

\* One approach: resolve its designation, set approach.neo, append it to
\* neo.approaches; an unknown designation leaves both untouched.
DbLink ==
    /\ Running /\ db_pc = "link" /\ db_i < Len(cas)
    /\ LET a == db_i + 1
           d == cas[a].designation
       IN  IF d \in DOMAIN by_des
           THEN /\ cas' = [cas EXCEPT ![a].neo = by_des[d]]
                /\ neos' = [neos EXCEPT ![by_des[d]].approaches = Append(@, a)]
           ELSE UNCHANGED <<cas, neos>>
    /\ db_i' = db_i + 1
    /\ UNCHANGED <<neo_csv, cad_json, neo_pc, neo_i, cad_pc, cad_i, index, db_pc,
                   by_des, out, exc>>

DbDone ==
    /\ Running /\ db_pc = "link" /\ db_i = Len(cas)
    /\ db_pc' = "done"
    /\ UNCHANGED <<neo_csv, cad_json, neo_pc, neo_i, neos, cad_pc, cad_i, index,
                   cas, db_i, by_des, out, exc>>

(***************************************************************************)
(* Serialization of a close approach, before linking or after it.          *)
(***************************************************************************)
Serialize ==
    /\ Running /\ cad_pc = "returned" /\ neo_pc = "returned"
    /\ db_pc \in {"idle", "done"}
    /\ \E a \in 1..Len(cas) :
          LET r == CloseApproach_serialize(cas[a], neos)
          IN  /\ out' = [exc |-> r.exc, val |-> r.val, of |-> a]
              /\ exc' = IF r.exc # ""
                        THEN [type |-> r.exc, origin |-> "CloseApproach.serialize"]
                        ELSE exc
    /\ UNCHANGED <<neo_csv, cad_json, neo_pc, neo_i, neos, cad_pc, cad_i, index,
                   cas, db_pc, db_i, by_des>>

Next ==
    \/ NeoOpen \/ NeoRow \/ NeoReturn
    \/ CadOpen \/ CadRow \/ CadReturn
    \/ DbBuild \/ DbLink \/ DbDone
    \/ Serialize

Spec == Init /\ [][Next]_vars

(***************************************************************************)
(* Properties.                                                             *)
(***************************************************************************)
\* The position a field name has in the header of the columnar source.
Pos(name) == CHOOSE k \in 1..Len(cad_json.fields) : cad_json.fields[k] = name

HeaderComplete == RequiredFields \subseteq Range(cad_json.fields)

Min(S) == CHOOSE x \in S : \A y \in S : x <= y

\* Raw numeric fields that are no number in any notation.
MalformedNumerals == {<<"a", "b", "c">>, <<"1", ".", "2", ".", "3">>}

\* C1: the diameter of every constructed NEO is NaN if and only if the raw
\* diameter of its record was the empty string.
C1_NanIffEmpty ==
    \A i \in 1..Len(neos) :
        isnan(neos[i].diameter) <=> (neo_csv[i].diameter = <<>>)

\* C2: the name of every constructed NEO is None if and only if the raw name
\* was the empty string; fullname equals designation exactly when the name
\* is None, and is "<designation> (<name>)" otherwise.
C2_NameAndFullname ==
    \A i \in 1..Len(neos) :
        LET n == neos[i]
            r == neo_csv[i]
        IN  /\ (n.name = None) <=> (r.name = <<>>)
            /\ (fullname(n) = n.designation) <=> (n.name = None)
            /\ n.name # None =>
                  fullname(n) = r.pdes \o <<" ", "(">> \o r.name \o <<")">>

C2_Witness ==
    /\ \E i \in 1..Len(neos) : neo_csv[i].name = <<>> /\ neos[i].name = None
    /\ \E i \in 1..Len(neos) :
          neos[i].name # None /\ Len(fullname(neos[i])) > Len(neos[i].designation)

\* C3: serializing a close approach whose neo reference is None does not fail.
C3_SerializeUnlinkedSucceeds ==
    \A a \in 1..Len(cas) :
        (out.of = a /\ cas[a].neo = NoneRef) => out.exc = ""

\* C4: a record with a malformed numeric field makes its loader fail at that
\* record at the latest: no entity is built for it or after it, the loader
\* does not return, and nothing consumes a partial collection.
BadNeoRecords ==
    {i \in 1..Len(neo_csv) : neo_csv[i].diameter \in MalformedNumerals}

BadCadRecords ==
    {i \in 1..Len(cad_json.data) :
        \E f \in {"dist", "v_rel"} :
            /\ f \in Range(cad_json.fields)
            /\ cad_json.data[i][Pos(f)] \in MalformedNumerals}

C4_MalformedNumberFailsLoad ==
    /\ BadNeoRecords # {} =>
          /\ Len(neos) < Min(BadNeoRecords)
          /\ neo_i < Min(BadNeoRecords)
          /\ neo_pc # "returned"
          /\ db_pc = "idle"
          /\ neo_pc = "raised" =>
                /\ neo_i = Min(BadNeoRecords) - 1
                /\ exc = [type |-> "ValueError", origin |-> "load_neos"]
    /\ BadCadRecords # {} =>
          /\ Len(cas) < Min(BadCadRecords)
          /\ cad_i < Min(BadCadRecords)
          /\ cad_pc # "returned"
          /\ db_pc = "idle"
          /\ cad_pc = "raised" =>
                exc = [type |-> "ValueError", origin |-> "load_approaches"]

C4_Witness ==
    /\ neo_pc = "raised"
    /\ BadNeoRecords = {2}
    /\ Len(neos) = 1

\* C5: when the header lacks a required field name, load_approaches fails
\* with the lookup's error before it processes a row: it builds no
\* CloseApproach and returns nothing.
C5_MissingFieldFailsFirst ==
    ~HeaderComplete =>
        /\ cad_pc \in {"start", "raised"}
        /\ cas = <<>> /\ cad_i = 0
        /\ cad_pc = "raised" =>
              exc = [type |-> "ValueError", origin |-> "load_approaches"]

C5_Witness ==
    /\ ~HeaderComplete
    /\ cad_pc = "raised"
    /\ Len(cad_json.data) = 2

\* C6: linking is consistent in both directions: every approach in
\* n.approaches refers back to n, and every approach with a neo occurs
\* exactly once in the approaches of that neo.
C6_LinkConsistent ==
    /\ \A n \in 1..Len(neos) :
          \A k \in 1..Len(neos[n].approaches) :
              /\ neos[n].approaches[k] \in 1..Len(cas)
              /\ cas[neos[n].approaches[k]].neo = n
    /\ db_pc = "done" =>
          \A a \in 1..Len(cas) :
              cas[a].neo # NoneRef =>
                  /\ cas[a].neo \in 1..Len(neos)
                  /\ Cardinality({k \in 1..Len(neos[cas[a].neo].approaches) :
                                     neos[cas[a].neo].approaches[k] = a}) = 1

C6_Witness ==
    /\ db_pc = "done"
    /\ \E n \in 1..Len(neos) : Len(neos[n].approaches) = 2
    /\ \E n \in 1..Len(neos) : neos[n].approaches = <<>>

\* C7: an approach whose designation names no NEO of the tabular source has
\* no neo after linking and is in no NEO's approaches, and linking does not
\* fail.
Unmatched(a) ==
    \A i \in 1..Len(neo_csv) : neo_csv[i].pdes # cad_json.data[a][Pos("des")]

C7_UnmatchedStaysUnlinked ==
    /\ \A a \in 1..Len(cas) :
          Unmatched(a) =>
              /\ cas[a].neo = NoneRef
              /\ \A n \in 1..Len(neos) : a \notin Range(neos[n].approaches)
    /\ db_pc = "link" => exc = NoExc
    /\ (db_pc = "done" /\ out = NoOut) => exc = NoExc

C7_Witness ==
    /\ db_pc = "done"
    /\ exc = NoExc
    /\ \E a \in 1..Len(cas) : Unmatched(a)
    /\ \E a \in 1..Len(cas) : cas[a].neo # NoneRef

\* C8: each loader returns one entity per record, in source order, the i-th
\* entity built from the fields of the i-th record taken by name.
C8_OneEntityPerRecordInOrder ==
    /\ neo_pc = "returned" =>
          /\ Len(neos) = Len(neo_csv)
          /\ \A i \in 1..Len(neos) :
                /\ neos[i].designation = neo_csv[i].pdes
                /\ neos[i].name =
                      (IF neo_csv[i].name = <<>> THEN None ELSE Some(neo_csv[i].name))
                /\ neos[i].diameter =
                      (IF neo_csv[i].diameter = <<>> THEN NaN
                       ELSE PyFloat(neo_csv[i].diameter))
                /\ neos[i].hazardous = (neo_csv[i].pha = <<"Y">>)
    /\ cad_pc = "returned" =>
          /\ Len(cas) = Len(cad_json.data)
          /\ \A i \in 1..Len(cas) :
                /\ cas[i].designation = cad_json.data[i][Pos("des")]
                /\ cas[i].time = cd_to_datetime(cad_json.data[i][Pos("cd")])
                /\ cas[i].distance = PyFloat(cad_json.data[i][Pos("dist")])
                /\ cas[i].velocity = PyFloat(cad_json.data[i][Pos("v_rel")])

C8_Witness ==
    /\ neo_pc = "returned" /\ cad_pc = "returned"
    /\ Len(neos) = 2 /\ neos[1] # neos[2]
    /\ Len(cas) = 2 /\ cas[1] # cas[2]
    /\ cad_json.fields[1] # "des"

\* C9: the diameter of every constructed NEO is a finite non-negative number
\* or NaN.
C9_DiameterFiniteNonNegativeOrNaN ==
    \A i \in 1..Len(neos) :
        \/ isnan(neos[i].diameter)
        \/ /\ neos[i].diameter.kind = "num"
           /\ (~neos[i].diameter.neg \/ neos[i].diameter.mant = 0)

\* C10: hazardous is true if and only if the raw pha field is exactly "Y".
C10_HazardousIffY ==
    \A i \in 1..Len(neos) : neos[i].hazardous <=> (neo_csv[i].pha = <<"Y">>)

C10_Witness ==
    /\ \E i \in 1..Len(neos) : neos[i].hazardous
    /\ \E i \in 1..Len(neos) : neo_csv[i].pha = <<"y">> /\ ~neos[i].hazardous

=============================================================================
